---------------------------- MODULE Spec2Model ----------------------------
(***************************************************************************)
(* A model of the programs of bbh-sim:                                     *)
(*   - the "Conscious Cosmos Simulator" page embedded in README.md         *)
(*     (coupled oscillator nodes, the DarkMatterGrid, the animate loop,    *)
(*     the kSlider and freqSlider handlers),                               *)
(*   - the DarkMatterGrid class on its own, driven with arbitrary D and    *)
(*     alpha arguments,                                                    *)
(*   - the "3D Cosmic Network Visualizer" page of Three.js,                *)
(*   - the event browser of js/main.js,                                    *)
(*   - the toy pipeline of examples/toy_lowres/run.sh and the three stage  *)
(*     scripts it calls.                                                   *)
(*                                                                         *)
(* Numbers.  JavaScript numbers are modelled in fixed point: the integer n *)
(* stands for n/Unit, sums and differences are exact and a product is      *)
(* rounded to the nearest multiple of 1/Unit, as a floating-point product  *)
(* is rounded to the nearest double.  Math.PI is modelled by the number 2  *)
(* and Math.sin by the piecewise linear wave of period 2*PI through the    *)
(* zeros and extrema of the sine (Sin(0) = 0, Sin(PI/2) = 1, Sin(PI) = 0,  *)
(* Sin(3*PI/2) = -1); Math.cos(x) is Sin(x + PI/2).                        *)
(***************************************************************************)
EXTENDS Integers, Sequences, FiniteSets, TLC

VARIABLES
    page,          \* which program is running: "cosmos", "grid", "field", "three", "events", "pipeline"
    \* ---- Conscious Cosmos Simulator (README.md) ----
    pc,            \* position of the page's script / of the running callback
    loopIdx,       \* index of the forEach iteration in progress
    nodes,         \* the nodes array: a sequence of node ids, in array order
    omega,         \* node id -> natural frequency
    amp,           \* node id -> amplitude A
    phi,           \* node id -> phase
    neighbors,     \* node id -> sequence of node ids
    nodeK,         \* node id -> the node's own coupling coefficient
    meshScale,     \* node id -> mesh.scale (amp + 0.5), set by the frame callback
    K,             \* the shared coupling coefficient
    FREQ_SCALE,    \* the shared frequency scale
    t,             \* simulated time
    rafPending,    \* number of animate callbacks queued by requestAnimationFrame
    listening,     \* TRUE once the slider listeners are registered
    rendered,      \* number of renderer.render calls
    \* ---- DarkMatterGrid ----
    dmGrid,        \* [width, height, grid]: grid[i][j], i in 0..width-1
    \* ---- observation (history) variables ----
    assigned,      \* node id -> number of assignments to node.neighbors
    firstNeighbors,\* node id -> the first list assigned to node.neighbors
    updated,       \* node id -> number of updatePhase calls
    diffused,      \* number of diffuse calls
    ticks,         \* number of completed animate callbacks
    frame,         \* what the running frame callback saw when it started
    call,          \* the last diffuse call: its arguments and the grid before it
    built,         \* the grid as the constructor left it
    \* ---- 3D Cosmic Network Visualizer (Three.js) ----
    meshes,        \* the page's nodes array: a sequence of meshes
    scene,         \* the ids of the meshes in the scene, in insertion order
    rotationSpeed, \* the shared rotation speed
    meshIds,       \* number of meshes created so far (object identity)
    frames3,       \* number of animate callbacks run
    \* ---- event browser (js/main.js) ----
    loadedEvents,  \* the events of data/events.json, once fetched
    fetched,       \* TRUE once the fetch callback has run
    options,       \* the values of the options of #eventSelect
    selectValue,   \* #eventSelect.value
    currentEvent,  \* null, undefined or an event
    waveformPlot,  \* what #waveformPlot shows
    freqPlot,      \* what #freqPlot shows
    quickFacts,    \* the #quickFacts panel
    formHidden,    \* whether #customForm has class "hidden"
    sliders,       \* values of the inputs mass1, mass2, duration
    labels,        \* texts of m1Val, m2Val, durVal
    download,      \* the last file offered for download
    \* ---- toy pipeline (examples/toy_lowres/run.sh) ----
    runAt,         \* index of run.sh's next command
    stageAt,       \* index of the running stage script's next command, or 0
    started,       \* the stages started, in order
    finished,      \* exit statuses of the stages that have exited, in order
    log,           \* every command run so far: script, index, exit status
    stdout,        \* the lines written to standard output
    exitStatus,    \* exit status of run.sh, or Running
    files          \* the paths that exist

cosmosVars == <<pc, loopIdx, nodes, omega, amp, phi, neighbors, nodeK, meshScale,
                K, FREQ_SCALE, t, rafPending, listening, rendered,
                assigned, firstNeighbors, updated, ticks, frame>>
gridVars == <<dmGrid, diffused, call, built>>
threeVars == <<meshes, scene, rotationSpeed, meshIds, frames3>>
eventsVars == <<loadedEvents, fetched, options, selectValue, currentEvent,
                waveformPlot, freqPlot, quickFacts, formHidden, sliders, labels,
                download>>
shellVars == <<runAt, stageAt, started, finished, log, stdout, exitStatus, files>>
vars == <<page, cosmosVars, gridVars, threeVars, eventsVars, shellVars>>

-----------------------------------------------------------------------------
(* Fixed-point arithmetic.                                                 *)

\* The number of model units in 1.
Unit == 100 * 100

\* The number n/d, rounded down to a multiple of 1/Unit.
Num(n, d) == (n * Unit) \div d
Whole(n) == n * Unit
Add(x, y) == x + y
Sub(x, y) == x - y
\* The product, rounded to the nearest multiple of 1/Unit.
Mul(x, y) == (x * y + (Unit \div 2)) \div Unit
Leq(x, y) == x <= y
\* x modulo the positive whole number m, in [0, m)
Mod(x, m) == x % (m * Unit)

Zero == Whole(0)
One == Whole(1)

-----------------------------------------------------------------------------
(* DarkMatterGrid (README.md, lines 373-391).                              *)

\* Outcomes of one Math.random() call used to fill a grid row.
GridDraws == {Zero, Num(1, 4), Num(3, 4)}

\* The parameter defaults of diffuse(D=0.1, alpha=0.01).
DefaultDUnstable == Num(1, 2)
DefaultD == Num(1, 10)
DefaultAlpha == Num(1, 100)

\* Arguments the grid driver passes to diffuse.
DValues == {Zero, DefaultD, Num(1, 2)}
AlphaValues == {Zero, DefaultAlpha}

\* Side length of the grid (the page uses GRID_SIZE = 50).
GRID_SIZE == 4
\* Number of diffuse calls followed.
MaxDiffuse == 2

\* constructor(width, height): Array(width).fill().map(() =>
\* Array(height).fill(Math.random())): one draw per first index i, shared by
\* every j of that row.
NewDarkMatterGrid(width, height, draw) ==
    [width |-> width, height |-> height,
     grid |-> [i \in 0..(width - 1) |-> [j \in 0..(height - 1) |-> draw[i]]]]

\* const newGrid = this.grid.map(arr => [...arr])
CopyGridZeroed(grid) == [i \in DOMAIN grid |-> [j \in DOMAIN grid[i] |-> Zero]]
CopyGrid(grid) == [i \in DOMAIN grid |-> [j \in DOMAIN grid[i] |-> grid[i][j]]]

\* The grid the right-hand sides of lines 384-386 read: this.grid, which
\* the loop never writes (it writes newGrid).
ReadGridInPlace(grid, newGrid) == newGrid
ReadGrid(grid, newGrid) == grid

\* laplace = grid[i+1][j] + grid[i-1][j] + grid[i][j+1] + grid[i][j-1] - 4*grid[i][j]
Laplace(g, i, j) ==
    Sub(Add(Add(Add(g[i + 1][j], g[i - 1][j]), g[i][j + 1]), g[i][j - 1]),
         Mul(Whole(4), g[i][j]))

\* newGrid[i][j] = grid[i][j] + D * laplace - alpha * grid[i][j]
CellUpdateNoDecay(v, laplace, D, alpha) == Add(v, Mul(D, laplace))
CellUpdate(v, laplace, D, alpha) ==
    Sub(Add(v, Mul(D, laplace)), Mul(alpha, v))

\* The cells the two nested loops visit, in visiting order:
\* for i = 1 .. width-2, for j = 1 .. height-2.
InteriorCells(width, height) ==
    [k \in 1..((width - 2) * (height - 2)) |->
        <<1 + ((k - 1) \div (height - 2)), 1 + ((k - 1) % (height - 2))>>]

\* The loop body applied to the cells of `cells` from index k on.
RECURSIVE DiffuseLoop(_, _, _, _, _, _)
DiffuseLoop(grid, newGrid, cells, k, D, alpha) ==
    IF k > Len(cells) THEN newGrid
    ELSE LET i == cells[k][1]
             j == cells[k][2]
             g == ReadGrid(grid, newGrid)
             v == CellUpdate(g[i][j], Laplace(g, i, j), D, alpha)
         IN  DiffuseLoop(grid, [newGrid EXCEPT ![i][j] = v], cells, k + 1, D, alpha)

\* diffuse(D, alpha): the new value of this.grid.
diffuse(dm, D, alpha) ==
    [dm EXCEPT !.grid = DiffuseLoop(dm.grid, CopyGrid(dm.grid),
                                    InteriorCells(dm.width, dm.height), 1, D, alpha)]


\* What `call` holds before the first diffuse call.
NoCall == [D |-> Zero, alpha |-> Zero, before |-> <<>>, made |-> FALSE]

\* One call dm.diffuse(D, alpha) with its bookkeeping.
DoDiffuse(D, alpha) ==
    /\ dmGrid' = diffuse(dmGrid, D, alpha)
    /\ call' = [D |-> D, alpha |-> alpha, before |-> dmGrid.grid, made |-> TRUE]
    /\ diffused' = diffused + 1
    /\ UNCHANGED built

-----------------------------------------------------------------------------
(* The Conscious Cosmos Simulator page (README.md, lines 338-455).         *)

\* NODE_COUNT (the page uses 100).
NODE_COUNT == 3
\* Length of the neighbour list: nodes.sort(...).slice(0, 3).
SliceEnd == 3
\* Number of animate callbacks followed after the first one.
MaxTicks == 1

NodeIds == 0..(NODE_COUNT - 1)

\* const DT = 0.01
DT == Num(1, 100)
\* Math.PI (see the header)
PI == Whole(2)
TwoPi == Mul(Whole(2), PI)

\* Initial values of the two sliders: value="0.2" and value="1".
InitialK == Num(1, 5)
InitialFreqScale == One
\* Values an input event can leave in kSlider (min 0, max 1, step 0.01)
\* and in freqSlider (min 0.1, max 2, step 0.01).
KValues == {InitialK, One}
FreqValues == {One, Whole(2)}

\* Outcomes of the Math.random() calls of the Node constructor and of the
\* freqSlider handler.
OmegaDraws == {Num(1, 4)}
AmpDraws == {Num(1, 2)}
PhaseDraws == {Zero, Num(1, 4)}

\* Math.sin: the piecewise linear wave of period 2*PI.
Sin(x) ==
    LET y == Mod(x, 4)
    IN  IF Leq(y, One) THEN y
        ELSE IF Leq(y, Whole(3)) THEN Sub(Whole(2), y)
        ELSE Sub(y, Whole(4))
\* Math.cos
Cos(x) == Sin(Add(x, One))

\* Node constructor: this.omega = Math.random() * 2 * Math.PI * FREQ_SCALE
NewOmega(r, freqScale) == Mul(Mul(r, TwoPi), freqScale)
\* this.A = Math.random() * 0.5 + 0.5
NewA(r) == Add(Mul(r, Num(1, 2)), Num(1, 2))
\* this.phi = Math.random() * 2 * Math.PI
NewPhi(r) == Mul(r, TwoPi)

\* The loop of updatePhase over this.neighbors from index k on:
\* dphi += n.K * Math.sin(n.phi - this.phi)
RECURSIVE CouplingSum(_, _, _, _, _)
CouplingSum(nbrs, k, kOf, phiOf, self) ==
    IF k > Len(nbrs) THEN Zero
    ELSE Add(Mul(kOf[nbrs[k]], Sin(Sub(phiOf[nbrs[k]], phiOf[self]))),
              CouplingSum(nbrs, k + 1, kOf, phiOf, self))

\* updatePhase(dt): the new this.phi = phi + (omega + dphi) * dt
updatePhaseUncoupled(self, dt, nbrs, kOf, phiOf, omegaOf) ==
    Add(phiOf[self], Mul(omegaOf[self], dt))
updatePhase(self, dt, nbrs, kOf, phiOf, omegaOf) ==
    Add(phiOf[self],
         Mul(Add(omegaOf[self], CouplingSum(nbrs, 1, kOf, phiOf, self)), dt))

\* amplitudeAt(t) = this.A * Math.cos(this.omega * t + this.phi)
amplitudeAt(a, w, p, time) == Mul(a, Cos(Add(Mul(w, time), p)))

\* mesh.scale.set(amp + 0.5, ...) and mesh.material.color.setHSL((amp+1)/2, 1, 0.5)
MeshLook(a) == [scale |-> Add(a, Num(1, 2)), hue |-> Mul(Add(a, One), Num(1, 2))]
NoLook == [scale |-> One, hue |-> Zero]

\* Every order an array can be left in by sort(() => Math.random() - 0.5):
\* the comparator is inconsistent, so the result is some permutation.
RandomSorts(arr) ==
    {[k \in 1..Len(arr) |-> arr[f[k]]] : f \in Permutations(1..Len(arr))}

\* slice(0, 3)
Slice(arr) == SubSeq(arr, 1, IF Len(arr) < SliceEnd THEN Len(arr) ELSE SliceEnd)

\* The statements of animate after requestAnimationFrame(animate), in the
\* order of the source: the nodes.forEach loop, dmGrid.diffuse(),
\* renderer.render(scene, camera), t += DT.
FrameOrderRenderFirst == <<"update", "render", "diffuse", "advance">>
FrameOrder == <<"update", "diffuse", "render", "advance">>

FramePcs == {FrameOrder[k] : k \in 1..Len(FrameOrder)}
\* The statement after statement `at`, "return" after the last one.
AfterStep(at) ==
    LET k == CHOOSE x \in 1..Len(FrameOrder) : FrameOrder[x] = at
    IN  IF k = Len(FrameOrder) THEN "return" ELSE FrameOrder[k + 1]

\* requestAnimationFrame(animate): one more callback is queued.
RequestAnimationFrameDropped(pending) == pending
RequestAnimationFrame(pending) == pending + 1

\* animate and the listeners are plain synchronous functions: the browser
\* dispatches the next callback only when none is running.
DispatchableMidFrame(at) == at \in {"idle"} \cup FramePcs
Dispatchable(at) == at = "idle"

NoFrame == [K |-> Zero, omega |-> <<>>, phi |-> <<>>, t |-> Zero,
            kRead |-> {}, omegaRead |-> {}, running |-> FALSE]


\* The variables of the Three.js page, of the event browser and of the
\* pipeline while another program runs.
ShellOff ==
    /\ runAt = 0 /\ stageAt = 0 /\ started = <<>> /\ finished = <<>>
    /\ log = <<>> /\ stdout = <<>> /\ exitStatus = 0 /\ files = {}
ThreeOff ==
    /\ meshes = <<>> /\ scene = <<>> /\ rotationSpeed = Zero
    /\ meshIds = 0 /\ frames3 = 0
EventsOff ==
    /\ loadedEvents = <<>> /\ fetched = FALSE /\ options = <<>>
    /\ selectValue = "" /\ currentEvent = [kind |-> "null"]
    /\ waveformPlot = [kind |-> "none"] /\ freqPlot = [kind |-> "none"]
    /\ quickFacts = [hidden |-> TRUE]
    /\ formHidden = TRUE /\ sliders = <<>> /\ labels = <<>>
    /\ download = [made |-> FALSE]

\* Outcomes of the Math.random() calls of the page's grid constructor.
PageGridDraws == {Num(1, 4)}

NoGrid == [width |-> 0, height |-> 0, grid |-> <<>>]

\* The state when the script reaches the neighbour assignment (line 416):
\* the sliders read, NODE_COUNT nodes constructed and pushed.
InitCosmos ==
    /\ page = "cosmos"
    /\ ShellOff
    /\ ThreeOff /\ EventsOff
    /\ K = InitialK
    /\ FREQ_SCALE = InitialFreqScale
    /\ nodes = [k \in 1..NODE_COUNT |-> k - 1]
    /\ omega \in [NodeIds -> {NewOmega(r, InitialFreqScale) : r \in OmegaDraws}]
    /\ amp \in [NodeIds -> {NewA(r) : r \in AmpDraws}]
    /\ phi \in [NodeIds -> {NewPhi(r) : r \in PhaseDraws}]
    /\ neighbors = [n \in NodeIds |-> <<>>]
    /\ nodeK = [n \in NodeIds |-> InitialK]
    /\ meshScale = [n \in NodeIds |-> NoLook]
    /\ t = Zero
    /\ pc = "assign"
    /\ loopIdx = 1
    /\ rafPending = 0
    /\ listening = FALSE
    /\ rendered = 0
    /\ dmGrid = NoGrid
    /\ assigned = [n \in NodeIds |-> 0]
    /\ firstNeighbors = [n \in NodeIds |-> <<>>]
    /\ updated = [n \in NodeIds |-> 0]
    /\ diffused = 0
    /\ ticks = 0
    /\ frame = NoFrame
    /\ call = NoCall
    /\ built = <<>>

\* One iteration of nodes.forEach(node => { node.neighbors =
\* nodes.sort(() => Math.random()-0.5).slice(0, 3); }): forEach reads
\* nodes[index] when it reaches the index, the callback sorts the array in
\* place and stores the first three of the new order.
AssignNeighbors ==
    /\ page = "cosmos" /\ pc = "assign"
    /\ LET node == nodes[loopIdx]
       IN  \E sorted \in RandomSorts(nodes) :
             /\ nodes' = sorted
             /\ neighbors' = [neighbors EXCEPT ![node] = Slice(sorted)]
             /\ assigned' = [assigned EXCEPT ![node] = @ + 1]
             /\ firstNeighbors' = IF assigned[node] = 0
                                  THEN [firstNeighbors EXCEPT ![node] = Slice(sorted)]
                                  ELSE firstNeighbors
    /\ loopIdx' = loopIdx + 1
    /\ pc' = IF loopIdx = Len(nodes) THEN "grid" ELSE "assign"
    /\ UNCHANGED <<page, shellVars, threeVars, eventsVars, omega, amp, phi, nodeK, meshScale, K, FREQ_SCALE, t,
                   rafPending, listening, rendered, updated, ticks, frame, gridVars>>

\* const dmGrid = new DarkMatterGrid(GRID_SIZE, GRID_SIZE)
CreateGrid ==
    /\ page = "cosmos" /\ pc = "grid"
    /\ \E draw \in [0..(GRID_SIZE - 1) -> PageGridDraws] :
         dmGrid' = NewDarkMatterGrid(GRID_SIZE, GRID_SIZE, draw)
    /\ built' = dmGrid'.grid
    /\ pc' = "start"
    /\ UNCHANGED <<page, shellVars, threeVars, eventsVars, loopIdx, nodes, omega, amp, phi, neighbors, nodeK, meshScale,
                   K, FREQ_SCALE, t, rafPending, listening, rendered,
                   assigned, firstNeighbors, updated, ticks, frame, diffused, call>>

\* The first statement of animate: requestAnimationFrame(animate).
EnterFrame ==
    /\ loopIdx' = 1
    /\ pc' = FrameOrder[1]
    /\ frame' = [K |-> K, omega |-> omega, phi |-> phi, t |-> t,
                 kRead |-> {}, omegaRead |-> {}, running |-> TRUE]
    /\ UNCHANGED <<page, shellVars, threeVars, eventsVars, nodes, omega, amp, phi, neighbors, nodeK, meshScale,
                   K, FREQ_SCALE, t, listening, rendered,
                   assigned, firstNeighbors, updated, ticks, gridVars>>

\* The script's own call animate() (line 443).
StartAnimate ==
    /\ page = "cosmos" /\ pc = "start"
    /\ rafPending' = RequestAnimationFrame(rafPending)
    /\ EnterFrame

\* The browser runs a queued animate callback.
AnimateFrame ==
    /\ page = "cosmos" /\ Dispatchable(pc)
    /\ rafPending > 0
    /\ ticks <= MaxTicks
    /\ rafPending' = RequestAnimationFrame(rafPending - 1)
    /\ EnterFrame

\* One iteration of nodes.forEach(node => { node.updatePhase(DT); const amp =
\* node.amplitudeAt(t); node.mesh.scale.set(...); ...setHSL(...) }).
UpdateNode ==
    /\ page = "cosmos" /\ pc = "update"
    /\ LET node == nodes[loopIdx]
           newPhi == updatePhase(node, DT, neighbors[node], nodeK, phi, omega)
           a == amplitudeAt(amp[node], omega[node], newPhi, t)
       IN  /\ phi' = [phi EXCEPT ![node] = newPhi]
           /\ meshScale' = [meshScale EXCEPT ![node] = MeshLook(a)]
           /\ updated' = [updated EXCEPT ![node] = @ + 1]
           /\ frame' = [frame EXCEPT
                          !.kRead = @ \cup {nodeK[neighbors[node][k]] :
                                               k \in 1..Len(neighbors[node])},
                          !.omegaRead = @ \cup {<<node, omega[node]>>}]
    /\ loopIdx' = loopIdx + 1
    /\ pc' = IF loopIdx = Len(nodes) THEN AfterStep("update") ELSE "update"
    /\ UNCHANGED <<page, shellVars, threeVars, eventsVars, nodes, omega, amp, neighbors, nodeK, K, FREQ_SCALE, t,
                   rafPending, listening, rendered, assigned, firstNeighbors,
                   ticks, gridVars>>

\* dmGrid.diffuse()
DiffuseField ==
    /\ page = "cosmos" /\ pc = "diffuse"
    /\ DoDiffuse(DefaultD, DefaultAlpha)
    /\ pc' = AfterStep("diffuse")
    /\ UNCHANGED <<page, shellVars, threeVars, eventsVars, loopIdx, nodes, omega, amp, phi, neighbors, nodeK, meshScale,
                   K, FREQ_SCALE, t, rafPending, listening, rendered,
                   assigned, firstNeighbors, updated, ticks, frame>>

\* renderer.render(scene, camera)
Render ==
    /\ page = "cosmos" /\ pc = "render"
    /\ rendered' = rendered + 1
    /\ pc' = AfterStep("render")
    /\ UNCHANGED <<page, shellVars, threeVars, eventsVars, loopIdx, nodes, omega, amp, phi, neighbors, nodeK, meshScale,
                   K, FREQ_SCALE, t, rafPending, listening,
                   assigned, firstNeighbors, updated, ticks, frame, gridVars>>

\* t += DT, and animate returns: to the script after its first call, to the
\* browser afterwards.
AdvanceTime ==
    /\ page = "cosmos" /\ pc = "advance"
    /\ t' = Add(t, DT)
    /\ ticks' = ticks + 1
    /\ frame' = [frame EXCEPT !.running = FALSE]
    /\ pc' = IF listening THEN "idle" ELSE "listen"
    /\ UNCHANGED <<page, shellVars, threeVars, eventsVars, loopIdx, nodes, omega, amp, phi, neighbors, nodeK, meshScale,
                   K, FREQ_SCALE, rafPending, listening, rendered,
                   assigned, firstNeighbors, updated, gridVars>>

\* The two addEventListener("input", ...) calls (lines 446-453), which end
\* the script.
AddListeners ==
    /\ page = "cosmos" /\ pc = "listen"
    /\ listening' = TRUE
    /\ pc' = "idle"
    /\ UNCHANGED <<page, shellVars, threeVars, eventsVars, loopIdx, nodes, omega, amp, phi, neighbors, nodeK, meshScale,
                   K, FREQ_SCALE, t, rafPending, rendered,
                   assigned, firstNeighbors, updated, ticks, frame, gridVars>>

\* kSlider "input": K = parseFloat(e.target.value); nodes.forEach(node => node.K = K)
SetNodeKSkipped(arr, kOf, v) == kOf
SetNodeK(arr, kOf, v) ==
    [n \in NodeIds |-> IF \E k \in 1..Len(arr) : arr[k] = n THEN v ELSE kOf[n]]

KSliderInput ==
    /\ page = "cosmos" /\ listening /\ Dispatchable(pc)
    /\ \E v \in KValues :
         /\ K' = v
         /\ nodeK' = SetNodeK(nodes, nodeK, v)
    /\ UNCHANGED <<page, shellVars, threeVars, eventsVars, pc, loopIdx, nodes, omega, amp, phi, neighbors, meshScale,
                   FREQ_SCALE, t, rafPending, listening, rendered,
                   assigned, firstNeighbors, updated, ticks, frame, gridVars>>

\* freqSlider "input": FREQ_SCALE = parseFloat(e.target.value);
\* nodes.forEach(node => node.omega = Math.random() * 2 * Math.PI * FREQ_SCALE)
FreqSliderInput ==
    /\ page = "cosmos" /\ listening /\ Dispatchable(pc)
    /\ \E v \in FreqValues :
         /\ FREQ_SCALE' = v
         /\ omega' \in [NodeIds -> {NewOmega(r, v) : r \in OmegaDraws}]
    /\ UNCHANGED <<page, shellVars, threeVars, eventsVars, pc, loopIdx, nodes, amp, phi, neighbors, nodeK, meshScale,
                   K, t, rafPending, listening, rendered,
                   assigned, firstNeighbors, updated, ticks, frame, gridVars>>

NextCosmos ==
    \/ AssignNeighbors
    \/ CreateGrid
    \/ StartAnimate
    \/ AnimateFrame
    \/ UpdateNode
    \/ DiffuseField
    \/ Render
    \/ AdvanceTime
    \/ AddListeners
    \/ KSliderInput
    \/ FreqSliderInput

SpecCosmos == InitCosmos /\ [][NextCosmos]_vars


-----------------------------------------------------------------------------
(* DarkMatterGrid on its own: a grid of any of the sizes below is          *)
(* constructed, then diffuse is called with any of the arguments DValues   *)
(* and AlphaValues.                                                        *)

\* The cosmos page's variables while another program runs.
CosmosOff ==
    /\ pc = "off" /\ loopIdx = 0 /\ nodes = <<>>
    /\ omega = <<>> /\ amp = <<>> /\ phi = <<>> /\ neighbors = <<>>
    /\ nodeK = <<>> /\ meshScale = <<>>
    /\ K = Zero /\ FREQ_SCALE = Zero /\ t = Zero
    /\ rafPending = 0 /\ listening = FALSE /\ rendered = 0
    /\ assigned = <<>> /\ firstNeighbors = <<>> /\ updated = <<>>
    /\ ticks = 0 /\ frame = NoFrame

GridSides == {GRID_SIZE - 1, GRID_SIZE}

InitGrid ==
    /\ page = "grid"
    /\ ShellOff
    /\ CosmosOff /\ ThreeOff /\ EventsOff
    /\ \E width \in GridSides, height \in GridSides :
         \E draw \in [0..(width - 1) -> GridDraws] :
            dmGrid = NewDarkMatterGrid(width, height, draw)
    /\ built = dmGrid.grid
    /\ diffused = 0
    /\ call = NoCall

GridDiffuse ==
    /\ page = "grid"
    /\ diffused < MaxDiffuse
    /\ \E D \in DValues, alpha \in AlphaValues : DoDiffuse(D, alpha)
    /\ UNCHANGED <<page, shellVars, threeVars, eventsVars, cosmosVars>>

NextGrid == GridDiffuse

SpecGrid == InitGrid /\ [][NextGrid]_vars

\* The grid as the page uses it: constructed from Math.random() outcomes,
\* which lie in [0, 1), then diffuse() called with no arguments, frame after
\* frame.
FieldDraws == {Zero, Num(1, 2), Sub(One, 1)}
MaxFieldDiffuse == 4

InitField ==
    /\ page = "field"
    /\ ShellOff
    /\ CosmosOff /\ ThreeOff /\ EventsOff
    /\ \E width \in GridSides, height \in GridSides :
         \E draw \in [0..(width - 1) -> FieldDraws] :
            dmGrid = NewDarkMatterGrid(width, height, draw)
    /\ built = dmGrid.grid
    /\ diffused = 0
    /\ call = NoCall

\* dmGrid.diffuse()
FieldDiffuse ==
    /\ page = "field"
    /\ diffused < MaxFieldDiffuse
    /\ DoDiffuse(DefaultD, DefaultAlpha)
    /\ UNCHANGED <<page, shellVars, threeVars, eventsVars, cosmosVars>>

NextField == FieldDiffuse

SpecField == InitField /\ [][NextField]_vars

-----------------------------------------------------------------------------
(* The 3D Cosmic Network Visualizer page (Three.js, lines 29-99).          *)
(* Each animate callback is one step: it queues its successor, moves and   *)
(* turns every mesh, calls controls.update() and ends in                   *)
(* renderer.render(scene, camera), after which it changes nothing.         *)

\* Largest value of the nodeCount slider followed (the slider goes from 5
\* to 100 and init calls addNodes(25)).
MaxSpheres == 2
\* Number of nodeCount input events and of animate callbacks followed.
MaxCountInputs == 2
MaxFrames3 == 2

SphereCounts == 1..MaxSpheres
\* let rotationSpeed = 0.01
InitialSpeed == Num(1, 100)
\* Values an input event can leave in the speed slider (min 0, max 0.05).
SpeedValues == {Zero, InitialSpeed, Num(5, 100)}

\* Outcomes of Math.random() in addNodes and of Date.now() * 0.001 in animate.
HueDraws == {Num(1, 4)}
PositionDraws == {Num(1, 4)}
ClockDraws == {Zero, Num(1, 2)}
\* The four Math.random() outcomes of one addNodes iteration.
MeshDraws == [hue : HueDraws, x : PositionDraws, y : PositionDraws, z : PositionDraws]

\* new THREE.Mesh(geo, mat) with mat.color.setHSL(Math.random(), 1, 0.5) and
\* mesh.position.set((Math.random()-0.5)*80, (Math.random()-0.5)*80,
\* (Math.random()-0.5)*80)
NewMesh(id, d) ==
    LET c(r) == Mul(Sub(r, Num(1, 2)), Whole(80))
    IN  [id |-> id, hue |-> d.hue, position |-> <<c(d.x), c(d.y), c(d.z)>>,
         rotation |-> <<Zero, Zero>>]

\* addNodes(count): the loop from iteration i on; every new mesh is added to
\* the scene and pushed on nodes.
RECURSIVE addNodes(_, _, _, _)
addNodes(st, i, count, draw) ==
    IF i >= count THEN st
    ELSE LET mesh == NewMesh(st.meshIds, draw[i])
         IN  addNodes([meshes |-> Append(st.meshes, mesh),
                       scene |-> Append(st.scene, mesh.id),
                       meshIds |-> st.meshIds + 1],
                      i + 1, count, draw)

\* clearNodes(): nodes.forEach(n => scene.remove(n)); nodes = []
clearNodesKept(st) == st
clearNodes(st) ==
    [st EXCEPT !.scene = SelectSeq(st.scene,
                            LAMBDA id : \A k \in 1..Len(st.meshes) : st.meshes[k].id # id),
               !.meshes = <<>>]

\* The three variables addNodes and clearNodes work on.
Spheres == [meshes |-> meshes, scene |-> scene, meshIds |-> meshIds]
SetSpheres(st) ==
    /\ meshes' = st.meshes
    /\ scene' = st.scene
    /\ meshIds' = st.meshIds

\* The state init() leaves: rotationSpeed = 0.01 and addNodes(25) (here
\* MaxSpheres), the listeners registered.
InitThree ==
    /\ page = "three"
    /\ ShellOff
    /\ CosmosOff /\ EventsOff
    /\ dmGrid = NoGrid /\ diffused = 0 /\ call = NoCall /\ built = <<>>
    /\ rotationSpeed = InitialSpeed
    /\ frames3 = 0
    /\ \E draw \in [0..(MaxSpheres - 1) -> MeshDraws] :
         LET st == addNodes([meshes |-> <<>>, scene |-> <<>>, meshIds |-> 0],
                            0, MaxSpheres, draw)
         IN  meshes = st.meshes /\ scene = st.scene /\ meshIds = st.meshIds

\* nodeCount "input": const n = parseInt(e.target.value); clearNodes(); addNodes(n)
NodeCountInput ==
    /\ page = "three"
    /\ meshIds < (MaxCountInputs + 1) * MaxSpheres
    /\ \E n \in SphereCounts :
         \E draw \in [0..(n - 1) -> MeshDraws] :
            SetSpheres(addNodes(clearNodes(Spheres), 0, n, draw))
    /\ UNCHANGED <<page, shellVars, cosmosVars, gridVars, eventsVars, rotationSpeed, frames3>>

\* speed "input": rotationSpeed = parseFloat(e.target.value)
SpeedInput ==
    /\ page = "three"
    /\ \E v \in SpeedValues : rotationSpeed' = v
    /\ UNCHANGED <<page, shellVars, cosmosVars, gridVars, eventsVars, meshes, scene, meshIds,
                   frames3>>

\* animate: nodes.forEach((node, i) => { node.position.x +=
\* Math.sin(Date.now() * 0.001 + i) * 0.005; node.position.y +=
\* Math.cos(Date.now() * 0.001 + i) * 0.005; node.rotation.x += rotationSpeed;
\* node.rotation.y += rotationSpeed; })
Animate3 ==
    /\ page = "three"
    /\ frames3 < MaxFrames3
    /\ \E nowX \in [1..Len(meshes) -> ClockDraws],
          nowY \in [1..Len(meshes) -> ClockDraws] :
         meshes' = [k \in 1..Len(meshes) |->
             LET m == meshes[k]
                 i == Whole(k - 1)
             IN  [m EXCEPT
                    !.position = <<Add(m.position[1],
                                       Mul(Sin(Add(nowX[k], i)), Num(5, 1000))),
                                   Add(m.position[2],
                                       Mul(Cos(Add(nowY[k], i)), Num(5, 1000))),
                                   m.position[3]>>,
                    !.rotation = <<Add(m.rotation[1], rotationSpeed),
                                   Add(m.rotation[2], rotationSpeed)>>]]
    /\ frames3' = frames3 + 1
    /\ UNCHANGED <<page, shellVars, cosmosVars, gridVars, eventsVars, scene, rotationSpeed,
                   meshIds>>

NextThree == NodeCountInput \/ SpeedInput \/ Animate3

SpecThree == InitThree /\ [][NextThree]_vars

\* The two pages with slider controls.
SpecControls == (InitCosmos \/ InitThree) /\ [][NextCosmos \/ NextThree]_vars

-----------------------------------------------------------------------------
(* The event browser (js/main.js).  A plot is represented by what          *)
(* determines it: the event, or the three parameters of the custom run.    *)
(* The page's HTML is not part of the sources: the model takes             *)
(* #eventSelect to start without options, #customForm and #quickFacts to   *)
(* start hidden and the three labels to start with their sliders' values.  *)

\* Event ids as data/events.json may hold them: a JSON string or a JSON
\* number, both written here by their text.
StringId(text) == [type |-> "string", text |-> text]
NumberId(text) == [type |-> "number", text |-> text]

GW150914 == [id |-> StringId("GW150914"), name |-> "GW150914",
             date |-> "2015-09-14", freq |-> Whole(150), amplitude |-> One]
GW170104 == [id |-> NumberId("170104"), name |-> "GW170104",
             date |-> "2017-01-04", freq |-> Whole(100), amplitude |-> Num(1, 2)]
GW190521 == [id |-> StringId("GW190521"), name |-> "GW190521",
             date |-> "2019-05-21", freq |-> Whole(60), amplitude |-> Num(1, 4)]

\* Contents of data.events the fetch may deliver.
EventFiles == {<<>>, <<GW150914>>, <<GW150914, GW190521>>, <<GW150914, GW170104>>}

\* opt.value = ev.id: the DOM stores the id converted to a string.
OptionValue(ev) == ev.id.text
\* e.id === id, with id the string select.value: strict equality holds only
\* for a string id with the same text.
StrictEquals(eventId, str) == eventId.type = "string" /\ eventId.text = str

Null == [kind |-> "null"]
Undefined == [kind |-> "undefined"]
Found(ev) == [kind |-> "event", event |-> ev]
\* if (currentEvent): null and undefined are falsy, an event object is not.
Truthy(x) == x.kind = "event"

\* data.events.find(e => e.id === id): the first match, or undefined.
Find(events, id) ==
    LET hits == {k \in 1..Len(events) : StrictEquals(events[k].id, id)}
    IN  IF hits = {} THEN Undefined
        ELSE Found(events[CHOOSE k \in hits : \A h \in hits : k <= h])

\* Text is a sequence of characters.  The values the three range inputs can
\* hold: valid floating-point number strings.
SliderStrings == {<<"1", "0">>, <<"3", "0", ".", "5", "0">>}

DigitChars == <<"0", "1", "2", "3", "4", "5", "6", "7", "8", "9">>
IsDigit(c) == \E d \in 1..10 : DigitChars[d] = c
DigitValue(c) == (CHOOSE d \in 1..10 : DigitChars[d] = c) - 1
\* Number of fraction digits the number representation resolves.
FractionDigits == 4
RECURSIVE Pow10(_)
Pow10(n) == IF n = 0 THEN 1 ELSE 10 * Pow10(n - 1)

\* The run of digits of str from position k on: its value as an integer and
\* the position after it.
RECURSIVE ScanDigits(_, _, _)
ScanDigits(str, k, acc) ==
    IF k <= Len(str) /\ IsDigit(str[k])
    THEN ScanDigits(str, k + 1, 10 * acc + DigitValue(str[k]))
    ELSE [value |-> acc, next |-> k]

\* parseFloat(str): the number written by the longest prefix of the form
\* digits [. digits].
parseFloat(str) ==
    LET whole == ScanDigits(str, 1, 0)
        dot == whole.next <= Len(str) /\ str[whole.next] = "."
        frac == ScanDigits(str, whole.next + 1, 0)
        places == frac.next - (whole.next + 1)
    IN  IF dot /\ places > 0
        THEN Add(Whole(whole.value), Num(frac.value, Pow10(places)))
        ELSE Whole(whole.value)
SliderIds == {"mass1", "mass2", "duration"}
\* id === "mass1" ? "m1Val" : id === "mass2" ? "m2Val" : "durVal"
LabelOf(id) == IF id = "mass1" THEN "m1Val" ELSE IF id = "mass2" THEN "m2Val" ELSE "durVal"

NoPlot == [kind |-> "none"]
\* plotWaveform(event): the strain trace and the frequency peak
EventTrace(ev) == [kind |-> "event", name |-> ev.name, freq |-> ev.freq]
EventPeak(ev) == [kind |-> "peak", x |-> ev.freq, y |-> ev.amplitude]
\* plotCustomWaveform(t, hPlus, {m1, m2, dur})
CustomTrace(m1, m2, dur) == [kind |-> "custom", m1 |-> m1, m2 |-> m2, dur |-> dur]
CustomPeak(m1, m2, dur) == [kind |-> "estimate", m1 |-> m1, m2 |-> m2, dur |-> dur]
\* overlayComparison(t, hPlus, currentEvent)
Overlay(m1, m2, dur, ev) ==
    [kind |-> "overlay", m1 |-> m1, m2 |-> m2, dur |-> dur,
     name |-> ev.name, freq |-> ev.freq]

\* showFacts(event)
Facts(ev) == [hidden |-> FALSE, name |-> ev.name, date |-> ev.date]

\* JSON.stringify({m1, m2, dur}, null, 2): the members in order, each
\* number written in its shortest decimal form.
RECURSIVE DigitsOf(_)
DigitsOf(n) ==
    IF n < 10 THEN <<DigitChars[n + 1]>>
    ELSE Append(DigitsOf(n \div 10), DigitChars[(n % 10) + 1])
\* The fraction f (in units of 10^-places) without its trailing zeros.
RECURSIVE FractionOf(_, _)
FractionOf(f, places) ==
    IF f = 0 THEN <<>>
    ELSE IF f % 10 = 0 THEN FractionOf(f \div 10, places - 1)
    ELSE LET digits == DigitsOf(f)
         IN  [k \in 1..places |->
                 IF k <= places - Len(digits) THEN "0"
                 ELSE digits[k - (places - Len(digits))]]

\* Number to text as JSON.stringify writes it: the shortest decimal that
\* reads back as the same number.
NumberToStringWhole(x) == DigitsOf(x \div Unit)
NumberToString(x) ==
    LET frac == FractionOf(x % Unit, FractionDigits)
    IN  IF frac = <<>> THEN DigitsOf(x \div Unit)
        ELSE DigitsOf(x \div Unit) \o <<".">> \o frac

Stringify(m1, m2, dur) ==
    [indent |-> 2,
     members |-> << <<"m1", NumberToString(m1)>>, <<"m2", NumberToString(m2)>>,
                    <<"dur", NumberToString(dur)>> >>]

\* The state when the script has run: the fetch is under way, the handlers
\* of lines 28-68 are set.
InitEvents ==
    /\ page = "events"
    /\ ShellOff
    /\ CosmosOff /\ ThreeOff
    /\ dmGrid = NoGrid /\ diffused = 0 /\ call = NoCall /\ built = <<>>
    /\ loadedEvents = <<>>
    /\ fetched = FALSE
    /\ options = <<>>
    /\ selectValue = ""
    /\ currentEvent = Null
    /\ waveformPlot = NoPlot
    /\ freqPlot = NoPlot
    /\ quickFacts = [hidden |-> TRUE]
    /\ formHidden = TRUE
    /\ sliders \in [SliderIds -> SliderStrings]
    /\ labels = [l \in {LabelOf(id) : id \in SliderIds} |->
                    sliders[CHOOSE id \in SliderIds : LabelOf(id) = l]]
    /\ download = [made |-> FALSE]

\* The fetch callback (lines 7-25): loadedEvents = data.events, one option
\* per event, loadEvent.onclick set.  A select shows its first option.
FetchDone ==
    /\ page = "events" /\ ~fetched
    /\ \E events \in EventFiles :
         /\ loadedEvents' = events
         /\ options' = [k \in 1..Len(events) |-> OptionValue(events[k])]
         /\ selectValue' = IF events = <<>> THEN "" ELSE OptionValue(events[1])
    /\ fetched' = TRUE
    /\ UNCHANGED <<page, shellVars, cosmosVars, gridVars, threeVars, currentEvent, waveformPlot,
                   freqPlot, quickFacts, formHidden, sliders, labels, download>>

\* The user picks an option of #eventSelect.
SelectOption ==
    /\ page = "events"
    /\ \E k \in 1..Len(options) : selectValue' = options[k]
    /\ UNCHANGED <<page, shellVars, cosmosVars, gridVars, threeVars, loadedEvents, fetched,
                   options, currentEvent, waveformPlot, freqPlot, quickFacts,
                   formHidden, sliders, labels, download>>

\* loadEvent.onclick (lines 17-24)
LoadEventClick ==
    /\ page = "events" /\ fetched
    /\ LET found == Find(loadedEvents, selectValue)
       IN  /\ currentEvent' = found
           /\ IF Truthy(found)
              THEN /\ quickFacts' = Facts(found.event)
                   /\ waveformPlot' = EventTrace(found.event)
                   /\ freqPlot' = EventPeak(found.event)
              ELSE UNCHANGED <<quickFacts, waveformPlot, freqPlot>>
    /\ UNCHANGED <<page, shellVars, cosmosVars, gridVars, threeVars, loadedEvents, fetched,
                   options, selectValue, formHidden, sliders, labels, download>>

\* simulateCustom.onclick (lines 28-31)
ToggleCustomForm ==
    /\ page = "events"
    /\ formHidden' = ~formHidden
    /\ UNCHANGED <<page, shellVars, cosmosVars, gridVars, threeVars, loadedEvents, fetched,
                   options, selectValue, currentEvent, waveformPlot, freqPlot,
                   quickFacts, sliders, labels, download>>

\* The user moves a slider; slider.oninput (line 37) copies the value to
\* its label.
SliderMove ==
    /\ page = "events"
    /\ \E id \in SliderIds, v \in SliderStrings :
         /\ sliders' = [sliders EXCEPT ![id] = v]
         /\ labels' = [labels EXCEPT ![LabelOf(id)] = v]
    /\ UNCHANGED <<page, shellVars, cosmosVars, gridVars, threeVars, loadedEvents, fetched,
                   options, selectValue, currentEvent, waveformPlot, freqPlot,
                   quickFacts, formHidden, download>>

\* runSim.onclick (lines 41-56)
RunSimClick ==
    /\ page = "events"
    /\ LET m1 == parseFloat(sliders["mass1"])
           m2 == parseFloat(sliders["mass2"])
           dur == parseFloat(sliders["duration"])
       IN  /\ freqPlot' = CustomPeak(m1, m2, dur)
           /\ waveformPlot' = IF Truthy(currentEvent)
                              THEN Overlay(m1, m2, dur, currentEvent.event)
                              ELSE CustomTrace(m1, m2, dur)
    /\ UNCHANGED <<page, shellVars, cosmosVars, gridVars, threeVars, loadedEvents, fetched,
                   options, selectValue, currentEvent, quickFacts, formHidden,
                   sliders, labels, download>>

\* saveSim.onclick (lines 59-68)
SaveSimClick ==
    /\ page = "events"
    /\ download' = [made |-> TRUE, name |-> "custom_simulation.json",
                    text |-> Stringify(parseFloat(sliders["mass1"]),
                                       parseFloat(sliders["mass2"]),
                                       parseFloat(sliders["duration"]))]
    /\ UNCHANGED <<page, shellVars, cosmosVars, gridVars, threeVars, loadedEvents, fetched,
                   options, selectValue, currentEvent, waveformPlot, freqPlot,
                   quickFacts, formHidden, sliders, labels>>

NextEvents ==
    \/ FetchDone
    \/ SelectOption
    \/ LoadEventClick
    \/ ToggleCustomForm
    \/ SliderMove
    \/ RunSimClick
    \/ SaveSimClick

SpecEvents == InitEvents /\ [][NextEvents]_vars

-----------------------------------------------------------------------------
(* The toy pipeline: examples/toy_lowres/run.sh and the stage scripts      *)
(* scripts/generate_initial_data.sh, scripts/run_simulation.sh and         *)
(* scripts/postprocess.sh.  Every script runs under set -euo pipefail.  A  *)
(* command's exit status depends on the environment (the file system, the  *)
(* installed programs) and is an input of the model.                       *)

Mkdir(path) == [cmd |-> "mkdir", path |-> path]
Echo(line) == [cmd |-> "echo", line |-> line]
Stage(name) == [cmd |-> "stage", name |-> name]
\* python3 - <<'PY' ... PY: the here-document's delimiter is quoted, so the
\* shell expands nothing in it and the program opens the paths as written.
Python(reads, writes, line) ==
    [cmd |-> "python3", reads |-> reads, writes |-> writes, line |-> line]

\* run.sh, lines 4-8
RunSh ==
    << Mkdir("output"),
       Stage("generate_initial_data"),
       Stage("run_simulation"),
       Stage("postprocess"),
       Echo("DONE") >>

\* The commands of a stage script, called with run.sh's arguments.
StageScript(name) ==
    IF name = "generate_initial_data"
    THEN << Mkdir("output/initial_data"),
            Echo("[generate_initial_data] Reading params"),
            Python({"$PARAMS"}, <<"$OUTDIR", "$OUTDIR/initial_data.json">>,
                   "Wrote $OUTDIR/initial_data.json"),
            Echo("Initial data generation complete (toy placeholder).") >>
    ELSE IF name = "run_simulation"
    THEN << Mkdir("output/run"),
            Echo("[run_simulation] Running toy evolution"),
            Python({"$PARAMS"},
                   <<"$OUTDIR", "$OUTDIR/waveform.json", "$OUTDIR/run_metadata.json">>,
                   "Wrote toy waveform and metadata to $OUTDIR"),
            Echo("Run complete (toy placeholder).") >>
    ELSE << Mkdir("output/post"),
            Echo("[postprocess] Converting Psi4->h (toy) and packaging HDF5"),
            Python({"$RUNDIR/waveform.json"}, <<"$OUTDIR", "$OUTDIR/waveforms.h5">>,
                   "Wrote HDF5 to $OUTDIR/waveforms.h5") >>

\* Exit statuses: success, a failed command, a command that is not found.
Failed == 1
NotFound == 127
\* exitStatus while run.sh has not exited.
Running == -1

\* The exit statuses a simple command can have in a file system fs: a
\* program that opens a missing file raises and exits with status 1.
Statuses(c, fs) ==
    IF c.cmd = "python3"
    THEN IF c.reads \subseteq fs THEN {0, Failed, NotFound} ELSE {Failed, NotFound}
    ELSE {0, Failed}

\* The file systems a simple command can leave behind when it exits with
\* the given status.  A python3 program creates its paths in the order
\* written; one that raises (a malformed document, a missing module) has
\* created some first part of them, none if it is its input that is missing.
FilesAfter(c, status, fs) ==
    IF c.cmd = "mkdir" THEN IF status = 0 THEN {fs \cup {c.path}} ELSE {fs}
    ELSE IF c.cmd = "python3"
    THEN LET made(n) == {c.writes[k] : k \in 1..n}
         IN  IF status = 0 THEN {fs \cup made(Len(c.writes))}
             ELSE IF status = Failed /\ c.reads \subseteq fs
             THEN {fs \cup made(n) : n \in 0..Len(c.writes)}
             ELSE {fs}
    ELSE {fs}
StdoutAfter(c, status, out) ==
    IF status = 0 /\ c.cmd \in {"echo", "python3"} THEN Append(out, c.line) ELSE out

\* set -e: the shell exits as soon as a command exits with non-zero status.
ErrexitOff(status) == FALSE
Errexit(status) == status # 0

\* Paths that may exist when run.sh starts: the files the programs open
\* under their literal names, and the output directory of an earlier run.
EnvFiles == {"$PARAMS", "$RUNDIR/waveform.json", "output"}

InitPipeline ==
    /\ page = "pipeline"
    /\ CosmosOff /\ ThreeOff /\ EventsOff
    /\ dmGrid = NoGrid /\ diffused = 0 /\ call = NoCall /\ built = <<>>
    /\ runAt = 1
    /\ stageAt = 0
    /\ started = <<>>
    /\ finished = <<>>
    /\ log = <<>>
    /\ stdout = <<>>
    /\ exitStatus = Running
    /\ files \in SUBSET EnvFiles

\* run.sh runs one of its simple commands (mkdir -p output, echo DONE).
RunShCommand ==
    /\ page = "pipeline" /\ exitStatus = Running /\ stageAt = 0
    /\ RunSh[runAt].cmd # "stage"
    /\ \E status \in Statuses(RunSh[runAt], files) :
         /\ files' \in FilesAfter(RunSh[runAt], status, files)
         /\ stdout' = StdoutAfter(RunSh[runAt], status, stdout)
         /\ log' = Append(log, [script |-> "run.sh", at |-> runAt, status |-> status])
         /\ IF Errexit(status) \/ runAt = Len(RunSh)
            THEN exitStatus' = status /\ runAt' = runAt
            ELSE exitStatus' = exitStatus /\ runAt' = runAt + 1
    /\ UNCHANGED <<page, cosmosVars, gridVars, threeVars, eventsVars, stageAt,
                   started, finished>>

\* run.sh starts the stage script of its next line.
StartStage ==
    /\ page = "pipeline" /\ exitStatus = Running /\ stageAt = 0
    /\ RunSh[runAt].cmd = "stage"
    /\ started' = Append(started, RunSh[runAt].name)
    /\ stageAt' = 1
    /\ UNCHANGED <<page, cosmosVars, gridVars, threeVars, eventsVars, runAt,
                   finished, log, stdout, exitStatus, files>>

\* The stage script of run.sh's next line cannot be executed (run.sh names
\* it by the relative path scripts/..., which exists only in some working
\* directories): the shell reports status 127 for the line.
StageNotFound ==
    /\ page = "pipeline" /\ exitStatus = Running /\ stageAt = 0
    /\ RunSh[runAt].cmd = "stage"
    /\ log' = Append(log, [script |-> "run.sh", at |-> runAt, status |-> NotFound])
    /\ IF Errexit(NotFound)
       THEN exitStatus' = NotFound /\ runAt' = runAt
       ELSE exitStatus' = exitStatus /\ runAt' = runAt + 1
    /\ UNCHANGED <<page, cosmosVars, gridVars, threeVars, eventsVars, stageAt,
                   started, finished, stdout, files>>

\* The running stage script runs its next command.  When the stage exits
\* (by set -e, or after its last command) run.sh gets its status and, being
\* under set -e too, exits or goes on to its next line.
StageCommand ==
    /\ page = "pipeline" /\ exitStatus = Running /\ stageAt > 0
    /\ LET name == RunSh[runAt].name
           script == StageScript(name)
           c == script[stageAt]
       IN  \E status \in Statuses(c, files) :
             /\ files' \in FilesAfter(c, status, files)
             /\ stdout' = StdoutAfter(c, status, stdout)
             /\ log' = Append(log, [script |-> name, at |-> stageAt, status |-> status])
             /\ IF Errexit(status) \/ stageAt = Len(script)
                THEN /\ stageAt' = 0
                     /\ finished' = Append(finished, status)
                     /\ IF Errexit(status)
                        THEN exitStatus' = status /\ runAt' = runAt
                        ELSE exitStatus' = exitStatus /\ runAt' = runAt + 1
                ELSE /\ stageAt' = stageAt + 1
                     /\ UNCHANGED <<finished, exitStatus, runAt>>
    /\ UNCHANGED <<page, cosmosVars, gridVars, threeVars, eventsVars, started>>

NextPipeline == RunShCommand \/ StartStage \/ StageNotFound \/ StageCommand

SpecPipeline == InitPipeline /\ [][NextPipeline]_vars

-----------------------------------------------------------------------------
(* Properties of DarkMatterGrid.diffuse.                                   *)

Rows(dm) == 0..(dm.width - 1)
Cols(dm) == 0..(dm.height - 1)
IsBorder(dm, i, j) == i = 0 \/ i = dm.width - 1 \/ j = 0 \/ j = dm.height - 1

\* Every cell of grid g, border and interior, holds v.
Uniform(dm, g, v) == \A i \in Rows(dm), j \in Cols(dm) : g[i][j] = v

\* C2 as stated: after a diffuse call on a grid whose every cell held the
\* same value v, every interior cell still holds v, whatever D was.
C2_UniformGridUnchanged ==
    call.made =>
        LET v == call.before[0][0]
        IN  Uniform(dmGrid, call.before, v) =>
                \A i \in Rows(dmGrid), j \in Cols(dmGrid) :
                    ~IsBorder(dmGrid, i, j) => dmGrid.grid[i][j] = v

\* C2 amended: after a diffuse call on a grid whose every cell held the same
\* value v, every interior cell holds v - alpha*v (the Laplacian term is
\* zero, the decay term stays), whatever D was.
C2_UniformGridDecays ==
    call.made =>
        LET v == call.before[0][0]
        IN  Uniform(dmGrid, call.before, v) =>
                \A i \in Rows(dmGrid), j \in Cols(dmGrid) :
                    ~IsBorder(dmGrid, i, j) =>
                        dmGrid.grid[i][j] = Sub(v, Mul(call.alpha, v))

\* C2 witness: a uniform grid of a non-zero value was diffused with a
\* non-zero D and a non-zero alpha.
C2_Witness ==
    /\ page = "grid" /\ call.made
    /\ call.D # Zero /\ call.alpha # Zero
    /\ Uniform(dmGrid, call.before, Num(3, 4))

\* C4: a diffuse call leaves every border cell at the value it held before
\* the call, for every grid, D and alpha; so after any number of calls the
\* border holds the values the constructor gave it.
C4_BorderPreserved ==
    call.made =>
        \A i \in Rows(dmGrid), j \in Cols(dmGrid) :
            IsBorder(dmGrid, i, j) =>
                /\ dmGrid.grid[i][j] = call.before[i][j]
                /\ dmGrid.grid[i][j] = built[i][j]

\* C4 witness: a call with non-zero D and alpha changed an interior cell of
\* a grid whose border is not zero.
C4_Witness ==
    /\ page = "grid" /\ call.made /\ call.D # Zero /\ call.alpha # Zero
    /\ dmGrid.grid[0][0] # Zero
    /\ \E i \in Rows(dmGrid), j \in Cols(dmGrid) :
         ~IsBorder(dmGrid, i, j) /\ dmGrid.grid[i][j] # call.before[i][j]

\* C5: after a diffuse call every interior cell holds
\* g(i,j) + D*(g(i+1,j) + g(i-1,j) + g(i,j+1) + g(i,j-1) - 4*g(i,j)) - alpha*g(i,j)
\* with every g the value the grid held before the call.
C5_UpdateFromSnapshot ==
    call.made =>
        LET g == call.before
        IN  \A i \in Rows(dmGrid), j \in Cols(dmGrid) :
              ~IsBorder(dmGrid, i, j) =>
                  dmGrid.grid[i][j] =
                      Sub(Add(g[i][j],
                              Mul(call.D,
                                  Sub(Add(Add(Add(g[i + 1][j], g[i - 1][j]),
                                              g[i][j + 1]), g[i][j - 1]),
                                      Mul(Whole(4), g[i][j])))),
                          Mul(call.alpha, g[i][j]))

\* C5 witness: a call with non-zero D on a grid with four interior cells,
\* the first of which changed: the updates of the cells below it and beside
\* it, visited later, had a changed neighbour to read.
C5_Witness ==
    /\ page = "grid" /\ call.made /\ call.D # Zero
    /\ dmGrid.width >= 4 /\ dmGrid.height >= 4
    /\ dmGrid.grid[1][1] # call.before[1][1]
    /\ call.before[2][1] # call.before[1][1]


-----------------------------------------------------------------------------
(* Properties of the Conscious Cosmos Simulator page.                      *)

\* The script is past the neighbour assignment loop.
LoopDone == page = "cosmos" /\ pc # "assign"
\* The script has made its call animate().
Started == page = "cosmos" /\ pc \notin {"assign", "grid", "start"}
\* The index of node n in the nodes array.
IndexOf(n) == CHOOSE k \in 1..Len(nodes) : nodes[k] = n

\* C3 as stated: once the neighbour assignment loop has finished, every node
\* has a list of exactly 3 neighbours that was assigned exactly once and is
\* the list it was first given.
C3_NeighborsAssignedOnce ==
    LoopDone =>
        \A n \in NodeIds :
            /\ Len(neighbors[n]) = SliceEnd
            /\ assigned[n] = 1
            /\ neighbors[n] = firstNeighbors[n]

\* The coupling sum of node n with every neighbour's phase taken from read.
CouplingWith(n, read) ==
    CouplingSum(neighbors[n], 1, nodeK, read, n)

\* The phases node n's update read: its own and the later-visited nodes'
\* from before the tick, the earlier-visited nodes' as already advanced.
PhasesSeenBy(n) ==
    [j \in NodeIds |-> IF IndexOf(j) < IndexOf(n) THEN phi[j] ELSE frame.phi[j]]

\* All nodes have been updated in the running frame.
AllUpdated == page = "cosmos" /\ frame.running /\ pc \in FramePcs \ {"update"}

\* C6 as stated: a tick takes every node i from phi_i to
\* phi_i + dt*(omega_i + sum_j K_j*sin(phi_j - phi_i)) with phi_i and every
\* phi_j the phases held at the start of the tick.
C6_AdvanceFromPreTickPhases ==
    AllUpdated =>
        \A n \in NodeIds :
            phi[n] = Add(frame.phi[n],
                         Mul(Add(omega[n], CouplingWith(n, frame.phi)), DT))

\* C6 amended: a tick takes every node i from phi_i to
\* phi_i + dt*(omega_i + sum_j K_j*sin(phi_j - phi_i)) with phi_i the phase
\* held at the start of the tick and phi_j the phase neighbour j holds when
\* node i is visited: already advanced for the neighbours that precede i in
\* the nodes array, the pre-tick phase for the others.
C6_AdvanceInVisitingOrder ==
    AllUpdated =>
        \A n \in NodeIds :
            phi[n] = Add(frame.phi[n],
                         Mul(Add(omega[n],
                                 CouplingWith(n, PhasesSeenBy(n))),
                             DT))

\* C6 witness: all nodes updated in a tick in which some node has a
\* neighbour that was visited before it and whose phase the tick changed.
C6_Witness ==
    /\ AllUpdated
    /\ \E n \in NodeIds : \E k \in 1..Len(neighbors[n]) :
         LET j == neighbors[n][k]
         IN  /\ IndexOf(j) < IndexOf(n)
             /\ phi[j] # frame.phi[j]
             /\ nodeK[j] # Zero
             /\ CouplingWith(n, frame.phi) # CouplingWith(n, PhasesSeenBy(n))

\* C8: while a frame callback runs no slider handler runs: the shared K,
\* the nodes' coefficients and the natural frequencies are those of the
\* frame's start, every coefficient the frame's phase updates read is that
\* K (the value the last kSlider handler wrote) and every natural frequency
\* they read is the one the node had at the frame's start.
C8_NoInterleaving ==
    (page = "cosmos" /\ frame.running) =>
        /\ K = frame.K
        /\ omega = frame.omega
        /\ frame.kRead \subseteq {K}
        /\ \A r \in frame.omegaRead : r[2] = omega[r[1]]

\* C8 witness: a frame that started after both sliders were moved has read
\* the new coefficient and the new frequencies.
C8_Witness ==
    /\ page = "cosmos" /\ frame.running /\ pc = "diffuse"
    /\ K # InitialK /\ FREQ_SCALE # InitialFreqScale
    /\ frame.kRead = {K}
    /\ frame.omegaRead # {}

\* What the counters hold when `done` ticks are complete.
CountsAre(upd, dif, ren, done) ==
    /\ \A n \in NodeIds : updated[n] = upd[n]
    /\ diffused = dif
    /\ rendered = ren
    /\ ticks = done
    /\ t = Mul(Whole(done), DT)

\* C9: in every tick each node is updated once, then the field is diffused
\* once, then the scene is rendered once, then t advances by DT; after n
\* completed ticks every node has been updated n times, the field diffused
\* n times, the scene rendered n times and t = n*DT.
C9_TickOrder ==
    Started =>
        LET n == ticks
            all(x) == [m \in NodeIds |-> x]
        IN  CASE pc = "update" ->
                   CountsAre([m \in NodeIds |->
                                 IF IndexOf(m) < loopIdx THEN n + 1 ELSE n],
                             n, n, n)
              [] pc = "diffuse" -> CountsAre(all(n + 1), n, n, n)
              [] pc = "render" -> CountsAre(all(n + 1), n + 1, n, n)
              [] pc = "advance" -> CountsAre(all(n + 1), n + 1, n + 1, n)
              [] OTHER -> CountsAre(all(n), n, n, n)

\* C9 witness: the first tick is complete and the second one, run from the
\* queue after the sliders were moved, has updated its nodes and diffused
\* the field.
C9_Witness ==
    /\ page = "cosmos" /\ pc = "render" /\ ticks = 1
    /\ K # InitialK /\ FREQ_SCALE # InitialFreqScale

-----------------------------------------------------------------------------
(* The frame loop under fair scheduling: the script runs to its end, a     *)
(* running callback runs to its end and the browser runs a queued animate  *)
(* callback; nothing makes the user move a slider.                         *)

ScriptStep == AssignNeighbors \/ CreateGrid \/ StartAnimate \/ AddListeners
FrameStep == UpdateNode \/ DiffuseField \/ Render \/ AdvanceTime

FairCosmos ==
    /\ SpecCosmos
    /\ WF_vars(ScriptStep)
    /\ WF_vars(FrameStep)
    /\ WF_vars(AnimateFrame)

\* C10: once the script has called animate, exactly one animate callback is
\* queued in every state (each invocation queues exactly one successor
\* before anything else), and whatever the phases, the field and the
\* sliders are, tick n is followed by tick n + 1 (for the ticks followed).
C10_LoopNeverStops ==
    /\ [](Started => rafPending = 1)
    /\ \A n \in 0..MaxTicks : (page = "cosmos" /\ ticks = n) ~> (ticks = n + 1)

\* C10 witness: a queued callback has run after both sliders were moved and
\* the loop is waiting for the next one.
C10_Witness ==
    /\ page = "cosmos" /\ pc = "idle" /\ ticks = 2 /\ rafPending = 1
    /\ K # InitialK /\ FREQ_SCALE # InitialFreqScale


-----------------------------------------------------------------------------
(* Properties of the input handlers of the two pages with sliders.         *)

\* One of the four input handlers runs.
InputEvent == KSliderInput \/ FreqSliderInput \/ NodeCountInput \/ SpeedInput

\* The state that is not a shared scalar.
NonScalars == <<page, pc, loopIdx, nodes, omega, amp, phi, neighbors, nodeK,
                meshScale, t, rafPending, listening, rendered, assigned,
                firstNeighbors, updated, ticks, frame, gridVars,
                meshes, scene, meshIds, frames3, eventsVars, shellVars>>

CosmosRest == <<page, pc, loopIdx, nodes, amp, phi, neighbors, meshScale, t,
                rafPending, listening, rendered, assigned, firstNeighbors,
                updated, ticks, frame, gridVars, threeVars, eventsVars,
                shellVars>>

-----------------------------------------------------------------------------
(* Properties of the event browser.                                        *)

\* The selected id matches no event of the loaded list.
Miss == ~Truthy(Find(loadedEvents, selectValue))

\* C1 as stated: a click on the load-event control with a selected id that
\* matches no loaded event changes nothing: not the plots, the facts panel
\* or any other state, the current event included.
C1_MissChangesNothing ==
    [][(LoadEventClick /\ Miss) => UNCHANGED eventsVars]_vars


\* JSON.parse of an exported document: the object with the documents's
\* members, each number read from its text.
Member(doc, key) ==
    doc.members[CHOOSE k \in 1..Len(doc.members) : doc.members[k][1] = key][2]
JSONParse(doc) ==
    [m1 |-> parseFloat(Member(doc, "m1")),
     m2 |-> parseFloat(Member(doc, "m2")),
     dur |-> parseFloat(Member(doc, "dur"))]

\* The number a control's text stands for (HTMLInputElement.valueAsNumber),
\* given for each text the range inputs can hold.
ValueAsNumber(str) ==
    IF str = <<"1", "0">> THEN 10 * Unit ELSE 30 * Unit + Unit \div 2

\* C11: a click on the export control produces a document that decodes to
\* the numbers the three controls hold at the click (mass A, mass B,
\* duration), whatever happened before, and changes no program state: only
\* the download is produced.
C11_ExportRoundTrip ==
    [][SaveSimClick =>
          /\ download'.made
          /\ download'.name = "custom_simulation.json"
          /\ JSONParse(download'.text) =
                [m1 |-> ValueAsNumber(sliders["mass1"]),
                 m2 |-> ValueAsNumber(sliders["mass2"]),
                 dur |-> ValueAsNumber(sliders["duration"])]
          /\ UNCHANGED <<page, shellVars, cosmosVars, gridVars, threeVars, loadedEvents,
                         fetched, options, selectValue, currentEvent,
                         waveformPlot, freqPlot, quickFacts, formHidden,
                         sliders, labels>>]_vars

\* C11 witness: an export made after an event load, a custom run and
\* slider moves, with different values in the controls, one of them written
\* with a trailing zero that the document drops.
C11_Witness ==
    /\ page = "events" /\ download.made
    /\ waveformPlot.kind = "overlay"
    /\ sliders["mass1"] = <<"1", "0">>
    /\ sliders["mass2"] = <<"3", "0", ".", "5", "0">>
    /\ waveformPlot.m2 = Whole(10)
    /\ download.text.members[2][2] = <<"3", "0", ".", "5">>
    /\ JSONParse(download.text).m2 = ValueAsNumber(sliders["mass2"])


-----------------------------------------------------------------------------
(* Properties of the toy pipeline.                                         *)

StageOrder == <<"generate_initial_data", "run_simulation", "postprocess">>
IsPrefix(a, b) == Len(a) <= Len(b) /\ \A k \in 1..Len(a) : a[k] = b[k]

\* C12: the stages are started in the order generate_initial_data,
\* run_simulation, postprocess; a command of run.sh or of a stage script
\* that exits with non-zero status is the last command run, the stage it
\* belongs to and run.sh exit with that status, so no later stage is
\* started; DONE is printed only when all three stages have exited with
\* status zero.
C12_FailFast ==
    /\ IsPrefix(started, StageOrder)
    /\ Len(finished) \in {Len(started) - 1, Len(started)}
    /\ stageAt > 0 <=> Len(finished) < Len(started)
    /\ \A k \in 1..Len(started) : k > 1 => finished[k - 1] = 0
    /\ \A k \in 1..Len(log) :
         log[k].status # 0 =>
            /\ k = Len(log)
            /\ exitStatus = log[k].status
            /\ stageAt = 0
            /\ log[k].script # "run.sh" =>
                  /\ Len(finished) = Len(started)
                  /\ finished[Len(finished)] = log[k].status
                  /\ started[Len(started)] = log[k].script
    /\ (\E k \in 1..Len(stdout) : stdout[k] = "DONE") =>
          /\ started = StageOrder
          /\ finished = <<0, 0, 0>>
          /\ exitStatus = 0

\* C12 witness: the second stage failed at its python3 step after the first
\* stage succeeded, and run.sh exited with the step's status.
C12_Witness ==
    /\ page = "pipeline"
    /\ started = <<"generate_initial_data", "run_simulation">>
    /\ finished = <<0, NotFound>>
    /\ Len(log) > 0
    /\ log[Len(log)] = [script |-> "run_simulation", at |-> 3, status |-> NotFound]
    /\ exitStatus = NotFound


-----------------------------------------------------------------------------
(* The range of the diffusion field.                                       *)

\* C13: every cell of the diffusion field lies in [0, 1], after the
\* construction and after any number of diffuse() calls with the default
\* parameters D = 0.1 and alpha = 0.01.
C13_CellsInUnitInterval ==
    \A i \in Rows(dmGrid), j \in Cols(dmGrid) :
        Leq(Zero, dmGrid.grid[i][j]) /\ Leq(dmGrid.grid[i][j], One)

\* C13 witness: MaxFieldDiffuse default steps on a grid with a row of zeros
\* next to a row just below 1: the interior cells of both rows have moved.
C13_Witness ==
    /\ page = "field" /\ diffused = MaxFieldDiffuse
    /\ dmGrid.width >= 4 /\ dmGrid.height >= 4
    /\ built[1][1] = Zero /\ built[2][1] = Sub(One, 1)
    /\ dmGrid.grid[1][1] > Zero
    /\ dmGrid.grid[2][1] < built[2][1]


-----------------------------------------------------------------------------
(* The nodes' coupling coefficients.                                       *)

\* C14: in every state of the page, after the construction and after any
\* ticks and slider inputs, every node's own coefficient node.K is the
\* shared K, so every coefficient the phase updates of the running frame
\* have read from a neighbour is also the reading node's own.
C14_NodeKIsK ==
    page = "cosmos" =>
        /\ \A n \in NodeIds : nodeK[n] = K
        /\ frame.running => \A n \in NodeIds : frame.kRead \subseteq {nodeK[n]}

\* C14 witness: a phase update that runs after the coupling slider was moved
\* has read the new coefficient from a neighbour.
C14_Witness ==
    /\ page = "cosmos" /\ frame.running /\ pc = "update" /\ loopIdx > 1
    /\ K = One /\ K # InitialK
    /\ frame.kRead = {One}
    /\ \A n \in NodeIds : nodeK[n] = One

=============================================================================
